---- MODULE Spec2Model ----
(***************************************************************************)
(* Model of periphery/i2c.py: the I2C handle (open, capability check,      *)
(* close, finalizer) and I2C.transfer (conversion of I2C.Message objects   *)
(* to the kernel's i2c_msg records, the I2C_RDWR ioctl, the read-back).    *)
(*                                                                         *)
(* A byte string is kept run-length encoded: a sequence of runs            *)
(* [b |-> byte, n |-> count], n >= 1, adjacent runs holding different      *)
(* bytes.  <<[b |-> 16, n |-> 65537]>> is 65537 bytes of 0x10.  Every      *)
(* operator on byte strings below keeps that normal form, so equality of   *)
(* encodings is equality of byte strings.                                  *)
(***************************************************************************)
EXTENDS Integers, Sequences, FiniteSets, TLC

VARIABLES fd, devpath, life, kopen, acquired, nClose, call

vars == <<fd, devpath, life, kopen, acquired, nClose, call>>

-----------------------------------------------------------------------------
(* Bounds of the exploration *)

\* longest message list passed to transfer()
MaxMsgs == 2
\* explicit close() calls are explored until this many release syscalls
MaxCloseCalls == 2

-----------------------------------------------------------------------------
(* Program constants *)

\* self._fd = None
None == -1
\* the descriptor number os.open returns
FD == 3
\* ctypes.c_ushort holds values modulo 2^16
USHORT == 65536
I2C_FUNC_I2C == 1
I2C_M_RD == 1
I2C_M_TEN == 16

\* payload lengths: one that fits CI2CMessage.len and one that does not
PayloadLens == {1, 65538}
\* byte values the kernel places in read buffers
Byte == {16, 171}
\* the byte value of caller payloads
InByte == 16
Kinds == {"bytes", "bytearray", "list"}
Addresses == {80, 1023}
Flags == {0, I2C_M_RD, I2C_M_TEN}
Paths == {"/dev/i2c-0"}
\* capability bitmasks returned by I2C_FUNCS
Caps == {0, 1, 14, 15}

-----------------------------------------------------------------------------
(* Integer bit operations of Python's & and | on non-negative ints *)

RECURSIVE BitAnd(_, _)
BitAnd(a, b) ==
    IF a = 0 \/ b = 0 THEN 0
    ELSE (IF a % 2 = 1 /\ b % 2 = 1 THEN 1 ELSE 0) + 2 * BitAnd(a \div 2, b \div 2)

RECURSIVE BitOr(_, _)
BitOr(a, b) ==
    IF a = 0 THEN b
    ELSE IF b = 0 THEN a
    ELSE (IF a % 2 = 1 \/ b % 2 = 1 THEN 1 ELSE 0) + 2 * BitOr(a \div 2, b \div 2)

-----------------------------------------------------------------------------
(* Byte strings *)

\* len(data)
RECURSIVE DataLen(_)
DataLen(d) == IF d = <<>> THEN 0 ELSE Head(d).n + DataLen(Tail(d))

\* the first k bytes of d: [buf[j] for j in range(k)]
RECURSIVE Take(_, _)
Take(d, k) ==
    IF k = 0 \/ d = <<>> THEN <<>>
    ELSE IF Head(d).n <= k THEN <<Head(d)>> \o Take(Tail(d), k - Head(d).n)
    ELSE <<[b |-> Head(d).b, n |-> k]>>

\* d without its first k bytes
RECURSIVE Drop(_, _)
Drop(d, k) ==
    IF k = 0 \/ d = <<>> THEN d
    ELSE IF Head(d).n <= k THEN Drop(Tail(d), k - Head(d).n)
    ELSE <<[b |-> Head(d).b, n |-> Head(d).n - k]>> \o Tail(d)

\* concatenation
Cat(x, y) ==
    IF x = <<>> THEN y
    ELSE IF y = <<>> THEN x
    ELSE LET lx == x[Len(x)]
             hy == Head(y)
             merged == [b |-> hy.b, n |-> (lx.n + hy.n)]
         IN IF lx.b = hy.b
            THEN SubSeq(x, 1, Len(x) - 1) \o <<merged>> \o Tail(y)
            ELSE x \o y

\* n bytes of value b
Fill(b, n) == IF n = 0 THEN <<>> ELSE <<[b |-> b, n |-> n]>>

-----------------------------------------------------------------------------
(* The kernel *)

CloseOutcomes == {"ok", "EIO"}
OpenOutcomes == {"ok", "ENOENT"}
QueryOutcomes == {"ok", "ENOTTY"}
XferOutcomes == {"ok", "EIO"}

\* os.close(f) on a descriptor number: a descriptor the kernel holds is
\* released whatever close(2) reports; a number it does not hold is EBADF
os_close(f, ko, oc) ==
    IF ko THEN [ok |-> (oc = "ok"), kopen |-> FALSE]
    ELSE [ok |-> FALSE, kopen |-> FALSE]

SysClose(f) == [name |-> "close", fd |-> f]
SysOpen == [name |-> "open", fd |-> None]
SysFuncs(f) == [name |-> "ioctl_funcs", fd |-> f]
SysRdwr(f, xfer) == [name |-> "ioctl_rdwr", fd |-> f, req |-> xfer]

-----------------------------------------------------------------------------
(* I2C.close *)

\* close() that always issues the release syscall on self._fd
close_NoGuard(f, ko, oc) ==
    LET r == os_close(f, ko, oc)
    IN [fd |-> IF r.ok THEN None ELSE f,
        kopen |-> r.kopen,
        err |-> IF r.ok THEN "none" ELSE "I2CException:close",
        sys |-> <<SysClose(f)>>]

close(f, ko, oc) ==
    IF f = None
    THEN [fd |-> None, kopen |-> ko, err |-> "none", sys |-> <<>>]
    ELSE LET r == os_close(f, ko, oc)
         IN [fd |-> IF r.ok THEN None ELSE f,
             kopen |-> r.kopen,
             err |-> IF r.ok THEN "none" ELSE "I2CException:close",
             sys |-> <<SysClose(f)>>]

-----------------------------------------------------------------------------
(* I2C._open, called by I2C.__init__ on a handle with _fd = None *)

I2C_open(path, openOc, queryOc, caps, closeOc) ==
    IF openOc # "ok"
    THEN [fd |-> None, devpath |-> "", kopen |-> FALSE, acquired |-> FALSE,
          err |-> "I2CException:open", sys |-> <<SysOpen>>, buf |-> 0]
    ELSE LET buf == IF queryOc = "ok" THEN caps ELSE 0
             c == close(FD, TRUE, closeOc)
             opened == <<SysOpen, SysFuncs(FD)>>
         IN IF queryOc # "ok"
            THEN [fd |-> c.fd, devpath |-> path, kopen |-> c.kopen, acquired |-> TRUE,
                  err |-> IF c.err # "none" THEN c.err ELSE "I2CException:query",
                  sys |-> opened \o c.sys, buf |-> buf]
            ELSE IF BitAnd(buf, I2C_FUNC_I2C) = 0
            THEN [fd |-> c.fd, devpath |-> path, kopen |-> c.kopen, acquired |-> TRUE,
                  err |-> IF c.err # "none" THEN c.err ELSE "I2CException:unsupported",
                  sys |-> opened \o c.sys, buf |-> buf]
            ELSE [fd |-> FD, devpath |-> path, kopen |-> TRUE, acquired |-> TRUE,
                  err |-> "none", sys |-> opened, buf |-> buf]

\* number of release syscalls in a syscall log
RECURSIVE Releases(_)
Releases(sys) ==
    IF sys = <<>> THEN 0
    ELSE (IF Head(sys).name = "close" THEN 1 ELSE 0) + Releases(Tail(sys))

-----------------------------------------------------------------------------
(* I2C.Message and its conversions *)

\* payload values of caller messages
Payloads == {Fill(InByte, n) : n \in PayloadLens}

\* I2C.Message(data, read, flags) objects whose data has container type kind
Message(kind) ==
    [data : {[kind |-> kind, val |-> v] : v \in Payloads}, read : BOOLEAN, flags : Flags]

\* which entries of a list of n messages are one and the same object: ids[i]
\* names the object at index i, objects numbered in order of first occurrence
Aliasings(n) ==
    {p \in [1..n -> 1..n] :
        \A i \in 1..n : \A v \in 1..(p[i] - 1) : \E j \in 1..(i - 1) : p[j] = v}

\* number of objects in a list with aliasing p
NumObjs(p) == Cardinality({p[i] : i \in 1..Len(p)})

\* message lists of at most MaxMsgs entries: msgs[i] is the Message object at
\* index i as it is now, ids tells which entries are the same object
MsgLists(kind) ==
    UNION {UNION {{[msgs |-> [i \in 1..n |-> objs[p[i]]], ids |-> p] :
                      objs \in [1..NumObjs(p) -> Message(kind)]} :
                  p \in Aliasings(n)} :
           n \in 0..MaxMsgs}

\* what a caller passes that is no list
NotAList == [msgs |-> <<>>, ids |-> <<>>]

\* bytes(data), bytes(bytearray(data)): the payload as a bytes object
ToBytes(d) == [kind |-> "bytes", val |-> d.val]

\* the list of ints read from a buffer, as the container type of the message
FromInts(kind, ints) == [kind |-> kind, val |-> ints]

\* one CI2CMessage: three c_ushort fields and a buffer of len(data) bytes
\* holding data
CRecord(address, m) ==
    LET data == ToBytes(m.data)
    IN [addr |-> address % USHORT,
        flags |-> BitOr(m.flags, IF m.read THEN I2C_M_RD ELSE 0) % USHORT,
        len |-> DataLen(data.val) % USHORT,
        buf |-> data.val]

cmessages(address, messages) ==
    [i \in 1..Len(messages) |-> CRecord(address, messages[i])]

\* CI2CIocTransfer
I2CIocTransfer(cm) == [nmsgs |-> Len(cm), msgs |-> cm]

-----------------------------------------------------------------------------
(* The I2C_RDWR ioctl *)

\* byte strings of length L the kernel may place in a read buffer
KernelData(L) == {Fill(b, L) : b \in Byte}

\* what the kernel may return for one record: len bytes for a record whose
\* flags hold I2C_M_RD, nothing for the others
RecResp(rec) ==
    IF BitAnd(rec.flags, I2C_M_RD) # 0 THEN KernelData(rec.len) ELSE {<<>>}

RECURSIVE RespSeqs(_)
RespSeqs(cm) ==
    IF cm = <<>> THEN {<<>>}
    ELSE {<<h>> \o t : h \in RecResp(Head(cm)), t \in RespSeqs(Tail(cm))}

\* the buffers after the kernel has executed the batch: a read record's
\* first len bytes are overwritten, everything else is left as it was
KernelWrite(cm, resp) ==
    [i \in 1..Len(cm) |->
        IF BitAnd(cm[i].flags, I2C_M_RD) # 0
        THEN Cat(resp[i], Drop(cm[i].buf, cm[i].len))
        ELSE cm[i].buf]

Buffers(cm) == [i \in 1..Len(cm) |-> cm[i].buf]

\* fcntl.ioctl(self._fd, I2C_IOC_RDWR, i2c_xfer, False): None is no
\* descriptor (TypeError, nothing reaches the kernel); a number the kernel
\* does not hold is EBADF.  bufs are the buffers as the caller may read them
\* (transfer reads them after a successful ioctl only)
fcntl_ioctl_rdwr(f, ko, xfer, oc, resp) ==
    IF f = None
    THEN [err |-> "TypeError", issued |-> FALSE, bufs |-> Buffers(xfer.msgs)]
    ELSE IF ~ko
    THEN [err |-> "IOError", issued |-> TRUE, bufs |-> Buffers(xfer.msgs)]
    ELSE IF oc = "ok"
    THEN [err |-> "none", issued |-> TRUE, bufs |-> KernelWrite(xfer.msgs, resp)]
    ELSE [err |-> "IOError", issued |-> TRUE, bufs |-> Buffers(xfer.msgs)]

-----------------------------------------------------------------------------
(* I2C.transfer *)

\* validation that lets an empty list through
Validate_NoEmptyCheck(argIsList, messages) ==
    IF ~argIsList THEN "TypeError" ELSE "none"

\* the checks on the messages argument
Validate(argIsList, messages) ==
    IF ~argIsList THEN "TypeError"
    ELSE IF Len(messages) = 0 THEN "ValueError"
    ELSE "none"

\* messages[i].data = data: the object at index i is rebound, so every entry
\* of the list that is this object shows the new data
SetData(messages, ids, i, data) ==
    [j \in 1..Len(messages) |->
        IF ids[j] = ids[i] THEN [messages[j] EXCEPT !.data = data] ELSE messages[j]]

\* the read-back loop from index i on, in index order
RECURSIVE ReadBackFrom(_, _, _, _, _)
ReadBackFrom(messages, ids, cm, bufs, i) ==
    IF i > Len(messages) THEN messages
    ELSE LET data == FromInts(messages[i].data.kind, Take(bufs[i], cm[i].len))
             updated == IF messages[i].read
                        THEN SetData(messages, ids, i, data)
                        ELSE messages
         IN ReadBackFrom(updated, ids, cm, bufs, i + 1)

\* read-back loop that rewrites every message, from index i on
RECURSIVE ReadBackAllFrom(_, _, _, _, _)
ReadBackAllFrom(messages, ids, cm, bufs, i) ==
    IF i > Len(messages) THEN messages
    ELSE LET data == FromInts(messages[i].data.kind, Take(bufs[i], cm[i].len))
         IN ReadBackAllFrom(SetData(messages, ids, i, data), ids, cm, bufs, i + 1)

\* read-back that rewrites every message
ReadBack_All(messages, ids, cm, bufs) == ReadBackAllFrom(messages, ids, cm, bufs, 1)

\* update of the read messages from the buffers
ReadBack(messages, ids, cm, bufs) == ReadBackFrom(messages, ids, cm, bufs, 1)

transfer(f, ko, address, argIsList, messages, ids, oc, resp) ==
    LET v == Validate(argIsList, messages)
    IN IF v # "none"
       THEN [err |-> v, sys |-> <<>>, post |-> messages, allocs |-> 0, resp |-> <<>>]
       ELSE LET cm == cmessages(address, messages)
                i2c_xfer == I2CIocTransfer(cm)
                r == fcntl_ioctl_rdwr(f, ko, i2c_xfer, oc, resp)
                sys == IF r.issued THEN <<SysRdwr(f, i2c_xfer)>> ELSE <<>>
            IN IF r.err = "TypeError"
               THEN [err |-> "TypeError", sys |-> sys, post |-> messages,
                     allocs |-> Len(cm), resp |-> <<>>]
               ELSE IF r.err # "none"
               THEN [err |-> "I2CException:transfer", sys |-> sys, post |-> messages,
                     allocs |-> Len(cm), resp |-> <<>>]
               ELSE [err |-> "none", sys |-> sys, post |-> ReadBack(messages, ids, cm, r.bufs),
                     allocs |-> Len(cm), resp |-> resp]

-----------------------------------------------------------------------------
(* State machine of one handle *)

NoCall == [op |-> "none"]

Init ==
    /\ fd = None
    /\ devpath = ""
    /\ life = "none"
    /\ kopen = FALSE
    /\ acquired = FALSE
    /\ nClose = 0
    /\ call = NoCall

\* I2C(devpath): __init__ sets _fd and _devpath to None and calls _open
I2C_init ==
    /\ life = "none"
    /\ \E path \in Paths, openOc \in OpenOutcomes, queryOc \in QueryOutcomes,
          caps \in Caps, closeOc \in CloseOutcomes :
          LET r == I2C_open(path, openOc, queryOc, caps, closeOc)
          IN /\ fd' = r.fd
             /\ devpath' = r.devpath
             /\ kopen' = r.kopen
             /\ acquired' = r.acquired
             /\ nClose' = nClose + Releases(r.sys)
             /\ life' = IF r.err = "none" THEN "live" ELSE "failed"
             /\ call' = [op |-> "init", fdBefore |-> None, err |-> r.err, sys |-> r.sys,
                         opened |-> (openOc = "ok"), queried |-> (queryOc = "ok"),
                         buf |-> r.buf]

\* an explicit close() by the holder of the handle
I2C_close ==
    /\ life = "live"
    /\ call.op # "transfer"
    /\ fd = None \/ nClose < MaxCloseCalls
    /\ \E oc \in CloseOutcomes :
          LET r == close(fd, kopen, oc)
          IN /\ fd' = r.fd
             /\ kopen' = r.kopen
             /\ nClose' = nClose + Releases(r.sys)
             /\ call' = [op |-> "close", fdBefore |-> fd, err |-> r.err, sys |-> r.sys]
    /\ UNCHANGED <<devpath, life, acquired>>

\* __del__: the finalizer calls close(); an exception it raises is dropped
I2C_del ==
    /\ life \in {"live", "failed"}
    /\ call.op # "transfer"
    /\ \E oc \in CloseOutcomes :
          LET r == close(fd, kopen, oc)
          IN /\ fd' = r.fd
             /\ kopen' = r.kopen
             /\ nClose' = nClose + Releases(r.sys)
             /\ call' = [op |-> "del", fdBefore |-> fd, err |-> r.err, sys |-> r.sys]
    /\ life' = "finalized"
    /\ UNCHANGED <<devpath, acquired>>

\* transfer(address, messages) by the holder of the handle.  The kernel's
\* answer is drawn only when the request reaches it and succeeds.
I2C_transfer ==
    /\ life = "live"
    /\ call.op # "transfer"
    /\ \E address \in Addresses, argIsList \in BOOLEAN, kind \in Kinds, oc \in XferOutcomes :
       \E ml \in (IF argIsList THEN MsgLists(kind) ELSE {NotAList}) :
       \E resp \in (IF fd # None /\ kopen /\ oc = "ok"
                    THEN RespSeqs(cmessages(address, ml.msgs)) ELSE {<<>>}) :
          LET r == transfer(fd, kopen, address, argIsList, ml.msgs, ml.ids, oc, resp)
          IN call' = [op |-> "transfer", fdBefore |-> fd, err |-> r.err, sys |-> r.sys,
                      address |-> address, argIsList |-> argIsList,
                      pre |-> ml.msgs, ids |-> ml.ids, post |-> r.post,
                      resp |-> r.resp, allocs |-> r.allocs]
    /\ UNCHANGED <<fd, devpath, life, kopen, acquired, nClose>>

\* transfer has returned (or raised): the caller lets go of the message list
\* and of the outcome, the handle is as the call left it
I2C_transfer_return ==
    /\ call.op = "transfer"
    /\ call' = NoCall
    /\ UNCHANGED <<fd, devpath, life, kopen, acquired, nClose>>

Next == I2C_init \/ I2C_close \/ I2C_del \/ I2C_transfer \/ I2C_transfer_return

Spec == Init /\ [][Next]_vars

-----------------------------------------------------------------------------
(* Properties *)

IsClose == call.op = "close"
IsInit == call.op = "init"
IsTransfer == call.op = "transfer"
InvalidArgument == {"TypeError", "ValueError"}

\* the I2C_RDWR requests among the syscalls of the last call
Requests == {call.sys[k].req : k \in {j \in 1..Len(call.sys) : call.sys[j].name = "ioctl_rdwr"}}

\* flags with the read bit cleared
ClearRd(flags) == flags - BitAnd(flags, I2C_M_RD)

\* C1: a close() whose release syscall fails raises the close error and still
\* leaves the handle closed (_fd is None), and no close() or finalizer issues
\* a second release syscall on the descriptor.
C1_FailedCloseMarksReleased ==
    /\ (IsClose /\ call.err = "I2CException:close") => fd = None
    /\ (call.op \in {"close", "del"} /\ Releases(call.sys) > 0) => nClose = 1

\* C2: close() on a handle that a successful close() has released returns
\* without error, issues no syscall and leaves the handle closed.
C2_CloseIdempotent ==
    (IsClose /\ call.fdBefore = None) =>
        /\ call.err = "none"
        /\ call.sys = <<>>
        /\ fd = None
        /\ ~kopen

\* C2 witness: a close() was called on an already closed handle.
C2_Witness == IsClose /\ call.fdBefore = None /\ nClose = 1

\* C3: construction on a device whose capability query succeeds with a bitmask
\* lacking I2C_FUNC_I2C fails with the unsupported-device error, the
\* descriptor has been released once and the handle is closed, whatever the
\* release syscall reports.
C3_UnsupportedDevice ==
    (IsInit /\ call.opened /\ call.queried /\ BitAnd(call.buf, I2C_FUNC_I2C) = 0) =>
        /\ call.err = "I2CException:unsupported"
        /\ Releases(call.sys) = 1
        /\ ~kopen
        /\ fd = None

\* C4: the descriptor acquired by os.open is released exactly once: never
\* twice, and once the handle is finalized not zero times.
C4_ReleasedExactlyOnce ==
    /\ nClose <= (IF acquired THEN 1 ELSE 0)
    /\ (life = "finalized" /\ acquired) => nClose = 1

\* a handle on which close() has been called: the kernel no longer holds the
\* descriptor of a constructed handle, whether close() returned (_fd is None)
\* or raised the close error (_fd is still the descriptor number)
HandleClosed == life = "live" /\ ~kopen

\* C5: transfer() of a non-empty message list on a closed handle fails, sends
\* no request to the kernel on any descriptor number, the stale one included,
\* and leaves every message as it was.
C5_ClosedHandleUnusable ==
    (IsTransfer /\ HandleClosed /\ call.argIsList /\ Len(call.pre) > 0) =>
        /\ call.err # "none"
        /\ call.sys = <<>>
        /\ call.post = call.pre

\* C6: the request carries one record per message in the caller's order, each
\* with the address argument, and with the message's flags in which the read
\* bit is set exactly when the message is a read.
C6_RecordsMirrorMessages ==
    IsTransfer =>
        \A req \in Requests :
            /\ req.nmsgs = Len(call.pre)
            /\ Len(req.msgs) = Len(call.pre)
            /\ \A i \in 1..Len(call.pre) :
                  /\ req.msgs[i].addr = call.address
                  /\ req.msgs[i].flags =
                        (IF call.pre[i].read
                         THEN BitOr(call.pre[i].flags, I2C_M_RD)
                         ELSE ClearRd(call.pre[i].flags))

\* C7: transfer() with an empty list, or with something that is no list,
\* fails with an invalid-argument error: no buffer allocated, no syscall, the
\* handle and the argument untouched.
C7_EmptyListRejected ==
    (IsTransfer /\ (~call.argIsList \/ Len(call.pre) = 0)) =>
        /\ call.err \in InvalidArgument
        /\ call.sys = <<>>
        /\ call.allocs = 0
        /\ call.post = call.pre
        /\ fd = call.fdBefore

\* C7 witness: transfer() was called with an empty list on an open handle.
C7_Witness ==
    IsTransfer /\ call.argIsList /\ Len(call.pre) = 0 /\ fd # None /\ kopen

\* C8: a payload longer than 65535 bytes makes transfer() fail with an
\* invalid-argument error before any syscall; every record that reaches the
\* kernel carries the true length of its payload.
C8_OversizedPayloadRejected ==
    (IsTransfer /\ call.argIsList) =>
        /\ (\E i \in 1..Len(call.pre) : DataLen(call.pre[i].data.val) > USHORT - 1) =>
              (call.err \in InvalidArgument /\ call.sys = <<>>)
        /\ \A req \in Requests : \A i \in 1..Len(call.pre) :
              req.msgs[i].len = DataLen(call.pre[i].data.val)

\* C9: after a successful transfer() every read message holds, in its own
\* container type, the bytes the kernel placed in its buffer, as many as were
\* requested; when the kernel echoes the preceding write, the read message
\* equals the written payload.
C9_ReadBack ==
    (IsTransfer /\ call.err = "none") =>
        \A i \in 1..Len(call.pre) :
            call.pre[i].read =>
                /\ call.post[i].data.kind = call.pre[i].data.kind
                /\ call.post[i].data.val = call.resp[i]
                /\ DataLen(call.post[i].data.val) = DataLen(call.pre[i].data.val)
                /\ (i > 1 /\ ~call.pre[i - 1].read
                      /\ call.resp[i] = call.pre[i - 1].data.val) =>
                        call.post[i].data.val = call.pre[i - 1].data.val

\* C10: transfer() leaves every write message exactly as the caller passed
\* it, whether the ioctl succeeds or fails.
C10_WritesUntouched ==
    IsTransfer =>
        /\ Len(call.post) = Len(call.pre)
        /\ \A i \in 1..Len(call.pre) : ~call.pre[i].read => call.post[i] = call.pre[i]

\* C10 witness: a successful batch with a write message and a read message
\* whose payload the transfer replaced.
C10_Witness ==
    /\ IsTransfer /\ call.err = "none"
    /\ \E i, j \in 1..Len(call.pre) :
          /\ ~call.pre[i].read
          /\ call.pre[j].read
          /\ call.post[j] # call.pre[j]

\* C10 witness of the failing case: the ioctl failed on a batch with a write
\* message.
C10_FailedWitness ==
    /\ IsTransfer /\ call.err = "I2CException:transfer"
    /\ \E i \in 1..Len(call.pre) : ~call.pre[i].read

====
